---- MODULE Spec2Model ----
(***************************************************************************)
(* Model of the Episode Talk Maker API (src/main.py): the /health and      *)
(* /generate endpoints, the prompt builder's character range, the local    *)
(* EpisodeOut validation and the one-shot length correction of generate(). *)
(***************************************************************************)
EXTENDS Integers, Sequences, FiniteSets, TLC

VARIABLES
    OPENAI_API_KEY,  \* environment value read at process start (main.py:65)
    client,          \* module-level client handle (main.py:66)
    pc,              \* position of the request: "idle", "call1", "call2", "done"
    ep,              \* <<>> or <<EpisodeIn>> of the request in flight
    built,           \* build_user_prompt has run for this request
    target_chars,    \* locals of generate() (main.py:242)
    min_chars,
    max_chars,
    calls,           \* number of call_chat invocations of this request
    raw,             \* what the first call_chat produced
    raw2,            \* what the second call_chat produced
    out,             \* <<>> or <<candidate A>> (main.py:258)
    out2,            \* <<>> or <<candidate B>> (main.py:281)
    status,          \* HTTP status of the response, 0 while there is none
    detail,          \* detail of an HTTPException
    result,          \* <<>> or <<EpisodeOut returned with the 200>>
    health_resp      \* <<>> or <<last body returned by /health>>

vars == <<OPENAI_API_KEY, client, pc, ep, built, target_chars, min_chars,
          max_chars, calls, raw, raw2, out, out2, status, detail, result,
          health_resp>>

----------------------------------------------------------------------------
(* Bounds of the model. *)

\* durations of the requests of Spec: MinDuration .. MinDuration + DurationSpan
DurationSpan == 1
\* longest script array a backend payload carries
MaxLines == 6

(* Program constants. *)

\* EpisodeIn.duration_sec = Field(..., ge=30, le=600)
MinDuration == 30
MaxDuration == 600
\* EpisodeOut.anonymization_level = Field(..., ge=0, le=2)
AnonMin == 0
AnonMax == 2
\* output_json_schema(): minItems / maxItems of beats, script, slides
SchemaMinBeats == 6
SchemaMinScript == 6
SchemaMinSlides == 3
SchemaMaxSlides == 6
SchemaMinPause == 0

----------------------------------------------------------------------------
(* IEEE-754 binary64 arithmetic, as far as build_user_prompt uses it: the   *)
(* product of a small non-negative integer and a float constant, rounded to *)
(* nearest-even at 53 bits, then truncated by int().  A float constant is   *)
(* mant * 2^exp with mant a 53-bit integer given in base-2^14 limbs, least  *)
(* significant first.                                                       *)

LimbBits == 14
LimbBase == 16384
MantBits == 53

\* float("6.2") = 0x18cccccccccccd * 2^-50
CHARS_PER_SEC == [mant |-> <<3277, 13107, 3276, 1587>>, exp |-> -50]
\* the literal 0.85 = 0x1b333333333333 * 2^-53
F085 == [mant |-> <<13107, 3276, 13107, 1740>>, exp |-> -53]
\* the literal 1.15 = 0x12666666666666 * 2^-52
F115 == [mant |-> <<9830, 6553, 9830, 1177>>, exp |-> -52]

RECURSIVE MulLimbs(_, _, _)
\* x * m + carry, in limbs
MulLimbs(x, m, carry) ==
    IF m = <<>> THEN <<carry>>
    ELSE LET t == x * Head(m) + carry
         IN  <<t % LimbBase>> \o MulLimbs(x, Tail(m), t \div LimbBase)

RECURSIVE Pow2(_)
Pow2(n) == IF n = 0 THEN 1 ELSE 2 * Pow2(n - 1)

\* the bits of a limb sequence, least significant first
LimbsToBits(limbs) ==
    [i \in 1..(LimbBits * Len(limbs)) |->
        (limbs[((i - 1) \div LimbBits) + 1] \div Pow2((i - 1) % LimbBits)) % 2]

\* position of the highest set bit, 0 for zero
BitLength(bits) ==
    LET S == {i \in 1..Len(bits) : bits[i] = 1}
    IN  IF S = {} THEN 0 ELSE CHOOSE i \in S : (i = Len(bits) \/ \A j \in (i + 1)..Len(bits) : bits[j] = 0)

RECURSIVE IncBits(_)
\* bits + 1
IncBits(bits) ==
    IF bits = <<>> THEN <<1>>
    ELSE IF Head(bits) = 0 THEN <<1>> \o Tail(bits)
    ELSE <<0>> \o IncBits(Tail(bits))

RECURSIVE BitsToNat(_)
BitsToNat(bits) ==
    IF bits = <<>> THEN 0 ELSE Head(bits) + 2 * BitsToNat(Tail(bits))

\* the double nearest to x * c (ties to even), as [bits, exp]
FloatMul(x, c) ==
    LET P == LimbsToBits(MulLimbs(x, c.mant, 0))
        L == BitLength(P)
    IN  IF L <= MantBits THEN [bits |-> P, exp |-> c.exp]
        ELSE LET s      == L - MantBits
                 q      == SubSeq(P, s + 1, Len(P))
                 guard  == P[s] = 1
                 sticky == \E i \in 1..(s - 1) : P[i] = 1
                 up     == guard /\ (sticky \/ q[1] = 1)
             IN  [bits |-> IF up THEN IncBits(q) ELSE q, exp |-> c.exp + s]

\* int(f) of a non-negative double below 2^31
FloatToInt(f) ==
    IF f.exp >= 0 THEN BitsToNat(f.bits) * Pow2(f.exp)
    ELSE IF -f.exp >= Len(f.bits) THEN 0
    ELSE BitsToNat(SubSeq(f.bits, 1 - f.exp, Len(f.bits)))

----------------------------------------------------------------------------
(* Prompt builder. *)

\* the three numbers build_user_prompt returns beside the prompt text
build_user_prompt(e) ==
    LET t == FloatToInt(FloatMul(e.duration_sec, CHARS_PER_SEC))
    IN  [target_chars |-> t,
         min_chars    |-> FloatToInt(FloatMul(t, F085)),
         max_chars    |-> FloatToInt(FloatMul(t, F115))]

----------------------------------------------------------------------------
(* What call_chat can produce.  A reply is the outcome of one              *)
(* client.chat.completions.create call: it raises (kind "raise", exc the    *)
(* exception's message) or returns a message whose content is None, "",     *)
(* text that is no JSON, a JSON array, or a JSON object (doc = <<data>>).   *)

NoReply == [kind |-> "pending", exc |-> "", doc |-> <<>>]

RequiredKeys == {"anonymization_level", "beats", "script", "slides"}
ModelKeys    == RequiredKeys \cup {"warnings"}

KeySets == {ModelKeys, ModelKeys \ {"script"}, ModelKeys \cup {"debug"}}
AnonLevels == {-1, 1, 3}
BeatCounts == {5, 6}
SlideCounts == {2, 3, 7}
LineLens == {10, 36}
Pauses == {-1, 0}
LineCounts == 5..MaxLines

\* script arrays whose lines are well-formed ScriptLine objects; a line's text
\* is given by its number of characters, all that generate() reads of it
Scripts ==
    {[i \in 1..n |-> [text |-> l, pause |-> p]] :
        n \in LineCounts, l \in LineLens, p \in Pauses}

\* the JSON objects a reply can carry; beats and slides are arrays of
\* well-formed Beat and Slide objects, given by their lengths
Payloads ==
    [keys : KeySets, anonymization_level : AnonLevels, beats : BeatCounts,
     script : Scripts, slides : SlideCounts]

Replies ==
    {[kind |-> "raise", exc |-> e, doc |-> <<>>] : e \in {"APITimeoutError", "APIError"}}
    \cup {[kind |-> k, exc |-> "", doc |-> <<>>] : k \in {"none", "empty", "garbage", "json_array"}}
    \cup {[kind |-> "json_object", exc |-> "", doc |-> <<d>>] : d \in Payloads}

----------------------------------------------------------------------------
(* Helpers of generate(). *)

Ok(v)     == [ok |-> TRUE,  val |-> <<v>>, exc |-> ""]
Raise(e)  == [ok |-> FALSE, val |-> <<>>,  exc |-> e]

\* call_chat: the content of the first choice, or the exception of the call
call_chat(reply) ==
    IF reply.kind = "raise" THEN Raise(reply.exc) ELSE Ok(reply)

\* `not raw`
Falsy(content) == content.kind \in {"none", "empty"}

\* json.loads(raw) of a non-empty string
json_loads(content) ==
    IF content.kind = "garbage" THEN Raise("JSONDecodeError") ELSE Ok(content)

\* EpisodeOut(**data): the keyword expansion needs a mapping; the model
\* forbids extra keys, requires every field without a default, and bounds
\* anonymization_level; the three lists are typed List[...] without a length
\* constraint and ScriptLine.pause is an unconstrained float
EpisodeOut(data) ==
    IF data.kind # "json_object" THEN Raise("TypeError")
    ELSE LET d == data.doc[1]
         IN  IF    \/ ~(d.keys \subseteq ModelKeys)
                   \/ ~(RequiredKeys \subseteq d.keys)
                   \/ d.anonymization_level < AnonMin
                   \/ d.anonymization_level > AnonMax
             THEN Raise("ValidationError")
             ELSE Ok([anonymization_level |-> d.anonymization_level,
                      beats |-> d.beats, script |-> d.script,
                      slides |-> d.slides])

\* len(s.text)
StrLen(text) == text

RECURSIVE count_script_chars(_)
\* sum(len(s.text) for s in script)
count_script_chars(script) ==
    IF script = <<>> THEN 0
    ELSE StrLen(Head(script).text) + count_script_chars(Tail(script))

\* a range check that forgot the lower bound
InRangeNoLower(total, lo, hi) == total <= hi

\* min_chars <= total <= max_chars
InRange(total, lo, hi) == lo <= total /\ total <= hi

\* a boundary handler that hides the exception's message
Http500Generic(e) ==
    [pc |-> "done", status |-> 500, detail |-> "Internal Server Error",
     result |-> <<>>]

\* raise HTTPException(status_code=500, detail=str(e))
Http500(e) ==
    [pc |-> "done", status |-> 500, detail |-> e, result |-> <<>>]

\* return <model> from the endpoint
Return200(m) ==
    [pc |-> "done", status |-> 200, detail |-> "", result |-> <<m>>]

\* a first try without the early return of an in-range candidate
FirstTryNoEarlyReturn(reply, lo, hi) ==
    LET chat == call_chat(reply)
    IN  IF ~chat.ok THEN Http500(chat.exc) @@ [out |-> <<>>]
        ELSE IF Falsy(chat.val[1])
             THEN Http500("Empty content from OpenAI (1st try)") @@ [out |-> <<>>]
        ELSE LET data == json_loads(chat.val[1])
             IN  IF ~data.ok THEN Http500(data.exc) @@ [out |-> <<>>]
                 ELSE LET o == EpisodeOut(data.val[1])
                      IN  IF ~o.ok THEN Http500(o.exc) @@ [out |-> <<>>]
                          ELSE [pc |-> "call2", status |-> 0, detail |-> "",
                                result |-> <<>>, out |-> o.val]

\* the `# 1st try` block up to the point where generate() either ends or
\* issues the second call
FirstTry(reply, lo, hi) ==
    LET chat == call_chat(reply)
    IN  IF ~chat.ok THEN Http500(chat.exc) @@ [out |-> <<>>]
        ELSE IF Falsy(chat.val[1])
             THEN Http500("Empty content from OpenAI (1st try)") @@ [out |-> <<>>]
        ELSE LET data == json_loads(chat.val[1])
             IN  IF ~data.ok THEN Http500(data.exc) @@ [out |-> <<>>]
                 ELSE LET o == EpisodeOut(data.val[1])
                      IN  IF ~o.ok THEN Http500(o.exc) @@ [out |-> <<>>]
                          ELSE IF InRange(count_script_chars(o.val[1].script), lo, hi)
                               THEN Return200(o.val[1]) @@ [out |-> o.val]
                               ELSE [pc |-> "call2", status |-> 0, detail |-> "",
                                     result |-> <<>>, out |-> o.val]

\* a selection that always prefers the adjusted candidate
SelectSecond(a, b, lo, hi) == b

\* return out2 if min_chars <= total2 <= max_chars else out
Select(a, b, lo, hi) ==
    IF InRange(count_script_chars(b.script), lo, hi) THEN b ELSE a

\* a second try that treats empty content as the first try does
SecondTryEmptyRaises(reply, a, lo, hi) ==
    LET chat2 == call_chat(reply)
    IN  IF ~chat2.ok THEN Http500(chat2.exc) @@ [out2 |-> <<>>]
        ELSE IF Falsy(chat2.val[1])
             THEN Http500("Empty content from OpenAI (2nd try)") @@ [out2 |-> <<>>]
        ELSE LET data2 == json_loads(chat2.val[1])
             IN  IF ~data2.ok THEN Http500(data2.exc) @@ [out2 |-> <<>>]
                 ELSE LET o2 == EpisodeOut(data2.val[1])
                      IN  IF ~o2.ok THEN Http500(o2.exc) @@ [out2 |-> <<>>]
                          ELSE Return200(Select(a, o2.val[1], lo, hi))
                                   @@ [out2 |-> o2.val]

\* a second try that asks the backend again while the candidate is out of range
SecondTryRetries(reply, a, lo, hi) ==
    LET chat2 == call_chat(reply)
    IN  IF ~chat2.ok THEN Http500(chat2.exc) @@ [out2 |-> <<>>]
        ELSE IF Falsy(chat2.val[1])
             THEN Return200(a) @@ [out2 |-> <<>>]
        ELSE LET data2 == json_loads(chat2.val[1])
             IN  IF ~data2.ok THEN Http500(data2.exc) @@ [out2 |-> <<>>]
                 ELSE LET o2 == EpisodeOut(data2.val[1])
                      IN  IF ~o2.ok THEN Http500(o2.exc) @@ [out2 |-> <<>>]
                          ELSE IF InRange(count_script_chars(o2.val[1].script), lo, hi)
                               THEN Return200(o2.val[1]) @@ [out2 |-> o2.val]
                               ELSE [pc |-> "call2", status |-> 0, detail |-> "",
                                     result |-> <<>>, out2 |-> o2.val]

\* the `# 2nd try` block after the second call was issued
SecondTry(reply, a, lo, hi) ==
    LET chat2 == call_chat(reply)
    IN  IF ~chat2.ok THEN Http500(chat2.exc) @@ [out2 |-> <<>>]
        ELSE IF Falsy(chat2.val[1])
             THEN Return200(a) @@ [out2 |-> <<>>]
        ELSE LET data2 == json_loads(chat2.val[1])
             IN  IF ~data2.ok THEN Http500(data2.exc) @@ [out2 |-> <<>>]
                 ELSE LET o2 == EpisodeOut(data2.val[1])
                      IN  IF ~o2.ok THEN Http500(o2.exc) @@ [out2 |-> <<>>]
                          ELSE Return200(Select(a, o2.val[1], lo, hi))
                                   @@ [out2 |-> o2.val]

\* bool(OPENAI_API_KEY): an unset variable is None, a set one may be ""
Truthy(key) == key.set /\ key.value # ""

\* OpenAI(api_key=OPENAI_API_KEY) if OPENAI_API_KEY else None
MakeClient(key) == IF Truthy(key) THEN "OpenAI" ELSE "None"

\* a health body that tests the key against None only
HealthBodyIsNotNone(key) == [ok |-> TRUE, openai_key_configured |-> key.set]

\* the body /health returns
HealthBody(key) == [ok |-> TRUE, openai_key_configured |-> Truthy(key)]

----------------------------------------------------------------------------
(* The service. *)

Keys == {[set |-> FALSE, value |-> ""], [set |-> TRUE, value |-> ""],
         [set |-> TRUE, value |-> "sk-test"]}

Durations == MinDuration..(MinDuration + DurationSpan)

\* request-scoped state when no request has been handled
Fresh ==
    /\ pc = "idle"
    /\ built = FALSE
    /\ target_chars = 0
    /\ min_chars = 0
    /\ max_chars = 0
    /\ calls = 0
    /\ raw = NoReply
    /\ raw2 = NoReply
    /\ out = <<>>
    /\ out2 = <<>>
    /\ status = 0
    /\ detail = ""
    /\ result = <<>>

\* module import: the environment is read once
Init ==
    /\ OPENAI_API_KEY \in Keys
    /\ client = MakeClient(OPENAI_API_KEY)
    /\ ep = <<>>
    /\ health_resp = <<>>
    /\ Fresh

\* GET /health
Health ==
    /\ health_resp' = <<HealthBody(OPENAI_API_KEY)>>
    /\ UNCHANGED <<OPENAI_API_KEY, client, pc, ep, built, target_chars,
                   min_chars, max_chars, calls, raw, raw2, out, out2, status,
                   detail, result>>

\* POST /generate with a valid EpisodeIn, up to the first call_chat
Generate(e) ==
    /\ pc = "idle"
    /\ ep' = <<e>>
    /\ IF client = "None"
       THEN /\ pc' = "done"
            /\ status' = 503
            /\ detail' = "OPENAI_API_KEY is not configured on server"
            /\ built' = FALSE
            /\ target_chars' = 0
            /\ min_chars' = 0
            /\ max_chars' = 0
            /\ calls' = 0
       ELSE LET p == build_user_prompt(e)
            IN  /\ built' = TRUE
                /\ target_chars' = p.target_chars
                /\ min_chars' = p.min_chars
                /\ max_chars' = p.max_chars
                /\ calls' = 1
                /\ pc' = "call1"
                /\ status' = 0
                /\ detail' = ""
    /\ UNCHANGED <<OPENAI_API_KEY, client, raw, raw2, out, out2, result,
                   health_resp>>

\* the first call_chat completes and generate() runs on
FirstReply(reply) ==
    /\ pc = "call1"
    /\ LET r == FirstTry(reply, min_chars, max_chars)
       IN  /\ raw' = reply
           /\ pc' = r.pc
           /\ status' = r.status
           /\ detail' = r.detail
           /\ result' = r.result
           /\ out' = r.out
           /\ calls' = IF r.pc = "call2" THEN calls + 1 ELSE calls
    /\ UNCHANGED <<OPENAI_API_KEY, client, ep, built, target_chars, min_chars,
                   max_chars, raw2, out2, health_resp>>

\* the second call_chat completes and generate() runs to its end
SecondReply(reply) ==
    /\ pc = "call2"
    /\ LET r == SecondTry(reply, out[1], min_chars, max_chars)
       IN  /\ raw2' = reply
           /\ pc' = r.pc
           /\ status' = r.status
           /\ detail' = r.detail
           /\ result' = r.result
           /\ out2' = r.out2
           /\ calls' = IF r.pc = "call2" THEN calls + 1 ELSE calls
    /\ UNCHANGED <<OPENAI_API_KEY, client, ep, built, target_chars, min_chars,
                   max_chars, raw, out, health_resp>>

\* the response has been sent: the request's locals are gone and the
\* service takes the next request
Respond ==
    /\ pc = "done"
    /\ pc' = "idle"
    /\ ep' = <<>>
    /\ built' = FALSE
    /\ target_chars' = 0
    /\ min_chars' = 0
    /\ max_chars' = 0
    /\ calls' = 0
    /\ raw' = NoReply
    /\ raw2' = NoReply
    /\ out' = <<>>
    /\ out2' = <<>>
    /\ status' = 0
    /\ detail' = ""
    /\ result' = <<>>
    /\ UNCHANGED <<OPENAI_API_KEY, client, health_resp>>

Next ==
    \/ Health
    \/ Respond
    \/ \E d \in Durations : Generate([duration_sec |-> d])
    \/ \E reply \in Replies : FirstReply(reply)
    \/ \E reply \in Replies : SecondReply(reply)

Spec == Init /\ [][Next]_vars

----------------------------------------------------------------------------
(* The prompt builder on its own, over every valid duration. *)

InitPrompt ==
    /\ OPENAI_API_KEY = [set |-> TRUE, value |-> "sk-test"]
    /\ client = MakeClient(OPENAI_API_KEY)
    /\ ep \in {<<[duration_sec |-> d]>> : d \in MinDuration..MaxDuration}
    /\ health_resp = <<>>
    /\ Fresh

BuildPrompt ==
    /\ ~built
    /\ LET p == build_user_prompt(ep[1])
       IN  /\ built' = TRUE
           /\ target_chars' = p.target_chars
           /\ min_chars' = p.min_chars
           /\ max_chars' = p.max_chars
    /\ UNCHANGED <<OPENAI_API_KEY, client, pc, ep, calls, raw, raw2, out, out2,
                   status, detail, result, health_resp>>

NextPrompt == BuildPrompt

SpecPrompt == InitPrompt /\ [][NextPrompt]_vars

----------------------------------------------------------------------------
(* Properties of generate(), /health and build_user_prompt. *)

\* total script character count of a validated candidate
Total(m) == count_script_chars(m.script)

\* the candidate's total lies in the request's range
Within(m) == min_chars <= Total(m) /\ Total(m) <= max_chars

\* the first step produced no candidate A although its call has completed
FirstStepFailed == raw # NoReply /\ out = <<>>

\* the message of the exception a failed first step raises
FirstStepMessage ==
    CASE raw.kind = "raise"       -> raw.exc
      [] raw.kind \in {"none", "empty"} -> "Empty content from OpenAI (1st try)"
      [] raw.kind = "garbage"     -> "JSONDecodeError"
      [] raw.kind = "json_array"  -> "TypeError"
      [] OTHER                    -> "ValidationError"

\* C1: when the first call's content validates as candidate A and A's total is
\* within [min_chars, max_chars], the request has ended with a 200 carrying A
\* after exactly one generation call, and no second call was ever issued.
C1_InRangeFirstReturned ==
    (out # <<>> /\ Within(out[1]))
        => /\ pc = "done"
           /\ status = 200
           /\ result = out
           /\ calls = 1
           /\ raw2 = NoReply
           /\ out2 = <<>>

C1_Witness ==
    /\ pc = "done"
    /\ out # <<>>
    /\ Within(out[1])
    /\ status = 200
    /\ result = out
    /\ calls = 1

\* C2: when A validated out of range and the second call's content validated
\* as candidate B, the response is a 200 that carries B if and only if B's
\* total is within range, and otherwise carries A.
C2_SecondPreferredIffInRange ==
    (out # <<>> /\ out2 # <<>>)
        => /\ pc = "done"
           /\ status = 200
           /\ ~Within(out[1])
           /\ result = IF Within(out2[1]) THEN out2 ELSE out

C2_Witness ==
    /\ pc = "done"
    /\ out # <<>>
    /\ out2 # <<>>
    /\ out2 # out
    /\ ~Within(out2[1])
    /\ status = 200
    /\ result = out

\* C3: when A validated out of range and the second call completed without
\* error but with empty content (None or ""), the request ends with a 200
\* carrying A; no error is raised for the empty second result.
C3_EmptySecondFallsBack ==
    (raw2.kind \in {"none", "empty"})
        => /\ pc = "done"
           /\ out # <<>>
           /\ ~Within(out[1])
           /\ status = 200
           /\ result = out

C3_Witness ==
    /\ raw2.kind = "empty"
    /\ status = 200
    /\ result = out
    /\ calls = 2

\* C4: every failure of the second step (the call raising, content that is no
\* JSON, a payload failing EpisodeOut validation) is absorbed: the request
\* ends with a 200 carrying candidate A, never with an error status.
C4_SecondFailuresAbsorbed ==
    (raw2 # NoReply /\ out2 = <<>>)
        => /\ status = 200
           /\ result = out

\* C5: every failure of the first step (call raising, empty content, text that
\* is no JSON, JSON failing validation) ends the request with a 500 whose
\* detail is the exception's message; no second call is made and nothing is
\* returned.
C5_FirstFailuresFatal ==
    FirstStepFailed
        => /\ pc = "done"
           /\ status = 500
           /\ detail = FirstStepMessage
           /\ calls = 1
           /\ raw2 = NoReply
           /\ result = <<>>

C5_Witness ==
    /\ FirstStepFailed
    /\ raw.kind = "json_object"
    /\ status = 500
    /\ detail = "ValidationError"

\* C6: when client is None, a call of /generate ends with a 503 without
\* building prompts or calling the backend, and /health answers ok = true
\* with openai_key_configured = false.
C6_MissingCredential ==
    (client = "None")
        => /\ pc \in {"idle", "done"}
           /\ ~built
           /\ calls = 0
           /\ raw = NoReply
           /\ result = <<>>
           /\ (pc = "done" => status = 503)
           /\ (health_resp # <<>> =>
                  health_resp[1] = [ok |-> TRUE, openai_key_configured |-> FALSE])

C6_Witness ==
    /\ client = "None"
    /\ OPENAI_API_KEY.set
    /\ pc = "done"
    /\ status = 503
    /\ health_resp # <<>>

\* C7: every EpisodeOut returned with a 200 has at least 6 beats, at least 6
\* script lines, between 3 and 6 slides, no negative pause and an
\* anonymization_level among 0, 1, 2.
C7_ReturnedWithinSchemaBounds ==
    (status = 200)
        => LET m == result[1]
           IN  /\ m.beats >= SchemaMinBeats
               /\ Len(m.script) >= SchemaMinScript
               /\ m.slides >= SchemaMinSlides
               /\ m.slides <= SchemaMaxSlides
               /\ \A i \in 1..Len(m.script) : m.script[i].pause >= SchemaMinPause
               /\ m.anonymization_level \in AnonMin..AnonMax

\* C8: for every duration_sec in [30, 600], with chars_per_sec = 6.2,
\* target_chars = floor(6.2 * duration_sec), min_chars = floor(0.85 * target_chars),
\* max_chars = floor(1.15 * target_chars), min_chars <= target_chars <= max_chars,
\* and a duration of 120 gives 744, 632 and 855.
C8_CharRange ==
    built
        => LET d == ep[1].duration_sec
               t == (d * 62) \div 10
           IN  /\ target_chars = t
               /\ min_chars = (t * 85) \div 100
               /\ max_chars = (t * 115) \div 100
               /\ min_chars <= target_chars
               /\ target_chars <= max_chars
               /\ (d = 120 => /\ target_chars = 744
                              /\ min_chars = 632
                              /\ max_chars = 855)

\* C9: a request makes at most two generation calls: the first call is pending
\* only at one call, the second only at two, and once the second call has
\* completed the request is terminal with a 200 or an error status.
C9_AtMostOneCorrection ==
    /\ calls <= 2
    /\ (pc = "call1" => calls = 1)
    /\ (pc = "call2" => calls = 2 /\ raw2 = NoReply)
    /\ (raw2 # NoReply => pc = "done" /\ calls = 2)
    /\ (pc = "done" => status \in {200, 500, 503})

C9_Witness ==
    /\ pc = "done"
    /\ calls = 2
    /\ out2 # <<>>
    /\ ~Within(out[1])
    /\ ~Within(out2[1])
    /\ Total(out2[1]) > max_chars
    /\ status = 200

\* C10: a 200 whose result is outside [min_chars, max_chars] carries candidate
\* A after exactly two calls; candidate B is never returned out of range and a
\* response after a single call is in range.
C10_OutOfRangeOnlyFirstAfterTwo ==
    (status = 200 /\ ~Within(result[1]))
        => /\ result = out
           /\ calls = 2

C10_Witness ==
    /\ status = 200
    /\ ~Within(result[1])
    /\ result = out
    /\ calls = 2
    /\ raw2.kind = "json_object"

====
